---- MODULE Spec2Model ----
(***************************************************************************)
(* Model of backend/danswer/danswerbot/slack/utils.py: the feedback block  *)
(* identifier codec, the retried thread poster, the snippet formatter, the *)
(* thread reader and the bot identity cache.                               *)
(*                                                                         *)
(* Python strings are sequences of one-character strings, so that split,   *)
(* join, str(), int(), slicing and the regular expressions are computed    *)
(* character by character.  An optional value is the empty set (None) or   *)
(* a singleton set.                                                        *)
(***************************************************************************)
EXTENDS Integers, Sequences, FiniteSets, TLC

VARIABLES
    \* ---- feedback identifier codec
    cpc,            \* "idle" | "built" | "roundtrip" | "decomposed"
    b_args,         \* arguments of the last build_feedback_block_id call
    b_result,       \* its outcome: a token or a raised ValueError
    d_token,        \* argument of the last decompose_block_id call
    d_result,       \* its outcome: a triple or a raised ValueError
    \* ---- respond_in_thread under the retry decorator
    DANSWER_BOT_NUM_RETRIES,   \* the configured `tries` of the decorator
    ppc,            \* "idle" | "attempt" | "posting" | "sleeping" | "returned" | "raised"
    p_args,         \* arguments of the respond_in_thread call
    tries_left,     \* _tries of the retry loop
    delay,          \* _delay of the retry loop, in quarters of a second
    attempts,       \* executions of the function body so far
    next_receiver,  \* position of the `for receiver in receiver_ids` loop
    api_log,        \* every slack_call made, in order
    attempt_errors, \* the exception each failed attempt ended with
    sleeps,         \* the delays slept between attempts
    p_error,        \* the exception that reached the caller, if any
    \* ---- bot identity cache and thread reader
    DANSWER_BOT_APP_ID,  \* the module-level cache
    auth_test_calls,     \* auth_test queries issued so far
    cache_history,       \* every value assigned to DANSWER_BOT_APP_ID, in order
    id_calls,            \* calls of get_danswer_bot_app_id so far
    first_result,        \* outcome of the first get_danswer_bot_app_id call
    last_result,         \* outcome of the latest get_danswer_bot_app_id call
    tag_call,            \* last direct remove_danswer_bot_tag call: <<input, output>>
    rpc,                 \* read_slack_thread: "idle" | "reading" | "returned" | "raised"
    r_client,            \* the client read_slack_thread was called with
    replies,             \* the messages conversations_replies returned
    r_idx,               \* position of the `for reply in replies` loop
    thread_messages,     \* the list being built
    r_error,             \* the exception that ended read_slack_thread, if any
    \* ---- translate_vespa_highlight_to_slack
    spc,                 \* "idle" | "called" | "done"
    match_strs,          \* argument: the highlighted fragments
    used_chars,          \* argument: characters already used
    combined,            \* the joined fragments before the length check
    snippet              \* the string returned

codecVars == <<cpc, b_args, b_result, d_token, d_result>>

postVars == <<DANSWER_BOT_NUM_RETRIES, ppc, p_args, tries_left, delay, attempts,
              next_receiver, api_log, attempt_errors, sleeps, p_error>>

identityVars == <<DANSWER_BOT_APP_ID, auth_test_calls, cache_history, id_calls,
                  first_result, last_result>>

threadVars == <<tag_call, rpc, r_client, replies, r_idx, thread_messages, r_error>>

snippetVars == <<spc, match_strs, used_chars, combined, snippet>>

vars == <<codecVars, postVars, identityVars, threadVars, snippetVars>>

\* ------------------------------------------------------------------------
\* Bounds of the model
\* ------------------------------------------------------------------------
MaxMessageId == 12
MaxDocLen == 3
MaxRank == 1
MaxComponents == 5
MaxRetries == 3
MaxReceivers == 2
MaxReplies == 2
MaxIdCalls == 3
MaxSnippetLen == 4
MaxRemaining == 6
MaxOverdraw == 3

\* ------------------------------------------------------------------------
\* Optional values
\* ------------------------------------------------------------------------
None == {}
Some(x) == {x}
IsNone(o) == o = {}
Val(o) == CHOOSE x \in o : TRUE

\* ------------------------------------------------------------------------
\* Python string primitives
\* ------------------------------------------------------------------------
Whitespace == {" ", "\n"}
DigitChars == <<"0", "1", "2", "3", "4", "5", "6", "7", "8", "9">>
IsDigit(c) == \E d \in 1..10 : DigitChars[d] = c
DigitVal(c) == (CHOOSE d \in 1..10 : DigitChars[d] = c) - 1

\* s[i:i+len(sub)] == sub, i a 1-based index
OccursAt(s, sub, i) ==
    /\ i + Len(sub) - 1 <= Len(s)
    /\ SubSeq(s, i, i + Len(sub) - 1) = sub

\* `sub in s`
Contains(sub, s) == \E i \in 1..(Len(s) + 1) : OccursAt(s, sub, i)

\* s.startswith(p)
StartsWith(s, p) == OccursAt(s, p, 1)

\* s.split(sep): leftmost, non-overlapping occurrences of sep
RECURSIVE SplitFrom(_, _, _, _)
SplitFrom(s, sep, i, cur) ==
    IF i > Len(s) THEN <<cur>>
    ELSE IF OccursAt(s, sep, i)
         THEN <<cur>> \o SplitFrom(s, sep, i + Len(sep), <<>>)
         ELSE SplitFrom(s, sep, i + 1, Append(cur, s[i]))

Split(s, sep) == SplitFrom(s, sep, 1, <<>>)

\* sep.join(parts)
RECURSIVE Join(_, _)
Join(parts, sep) ==
    IF Len(parts) = 0 THEN <<>>
    ELSE IF Len(parts) = 1 THEN parts[1]
    ELSE parts[1] \o sep \o Join(Tail(parts), sep)

\* s.strip()
RECURSIVE LStrip(_)
LStrip(s) ==
    IF Len(s) > 0 /\ s[1] \in Whitespace THEN LStrip(Tail(s)) ELSE s

RECURSIVE RStrip(_)
RStrip(s) ==
    IF Len(s) > 0 /\ s[Len(s)] \in Whitespace
    THEN RStrip(SubSeq(s, 1, Len(s) - 1))
    ELSE s

Strip(s) == RStrip(LStrip(s))

\* str(n) for an int n
RECURSIVE NatToStr(_)
NatToStr(n) ==
    IF n < 10 THEN <<DigitChars[n + 1]>>
    ELSE NatToStr(n \div 10) \o <<DigitChars[(n % 10) + 1]>>

IntToStr(n) == IF n < 0 THEN <<"-">> \o NatToStr(-n) ELSE NatToStr(n)

\* int(s): surrounding whitespace stripped, an optional sign, then decimal
\* digits in which single underscores may separate digits
Unsigned(s) ==
    IF Len(s) > 0 /\ s[1] \in {"+", "-"} THEN Tail(s) ELSE s

IsDigitString(s) ==
    /\ Len(s) > 0
    /\ IsDigit(s[1])
    /\ IsDigit(s[Len(s)])
    /\ \A i \in 1..Len(s) :
          \/ IsDigit(s[i])
          \/ s[i] = "_" /\ IsDigit(s[i - 1]) /\ IsDigit(s[i + 1])

IsIntLiteral(s) == IsDigitString(Unsigned(Strip(s)))

RECURSIVE DigitsValue(_, _)
DigitsValue(s, acc) ==
    IF Len(s) = 0 THEN acc
    ELSE IF s[1] = "_" THEN DigitsValue(Tail(s), acc)
    ELSE DigitsValue(Tail(s), 10 * acc + DigitVal(s[1]))

StrToInt(s) ==
    LET t == Strip(s)
    IN  IF Len(t) > 0 /\ t[1] = "-"
        THEN 0 - DigitsValue(Unsigned(t), 0)
        ELSE DigitsValue(Unsigned(t), 0)

\* ------------------------------------------------------------------------
\* Feedback identifier codec
\* ------------------------------------------------------------------------
ID_SEPARATOR == <<":", ";", ":">>
PrefixLen == 10
Letters == {"a", "Z"}
ascii_letters ==
    {"a", "b", "c", "d", "e", "f", "g", "h", "i", "j", "k", "l", "m",
     "n", "o", "p", "q", "r", "s", "t", "u", "v", "w", "x", "y", "z",
     "A", "B", "C", "D", "E", "F", "G", "H", "I", "J", "K", "L", "M",
     "N", "O", "P", "Q", "R", "S", "T", "U", "V", "W", "X", "Y", "Z"}

\* the outcomes of "".join(random.choice(string.ascii_letters) ...) the model
\* draws from
Prefixes ==
    {[i \in 1..PrefixLen |-> IF i % 2 = 1 THEN a ELSE b] : a, b \in Letters}

Returned(v) == [ok |-> TRUE, value |-> v]
Raised(e) == [ok |-> FALSE, error |-> e]
NoCall == [ok |-> FALSE, error |-> "no call"]

ErrMissingInfo == "Invalid document, missing information"
ErrSeparatorInId == "Separator pattern should not already exist in document id"
ErrWrongCount == "Block ID does not contain right number of elements"
ErrInvalidLiteral == "invalid literal for int() with base 10"
ErrInvalidBlockId == "Received invalid Feedback Block Identifier"

\* build_feedback_block_id without the check of line 124
build_without_separator_check(message_id, document_id, document_rank, unique_prefix) ==
    IF ~IsNone(document_id)
    THEN IF Len(Val(document_id)) = 0 \/ IsNone(document_rank)
         THEN Raised(ErrMissingInfo)
         ELSE Returned(unique_prefix \o ID_SEPARATOR \o
                       Join(<<IntToStr(message_id), Val(document_id),
                              IntToStr(Val(document_rank))>>, ID_SEPARATOR))
    ELSE Returned(unique_prefix \o ID_SEPARATOR \o IntToStr(message_id))

build_feedback_block_id(message_id, document_id, document_rank, unique_prefix) ==
    IF ~IsNone(document_id)
    THEN IF Len(Val(document_id)) = 0 \/ IsNone(document_rank)
         THEN Raised(ErrMissingInfo)
         ELSE IF Contains(ID_SEPARATOR, Val(document_id))
         THEN Raised(ErrSeparatorInId)
         ELSE Returned(unique_prefix \o ID_SEPARATOR \o
                       Join(<<IntToStr(message_id), Val(document_id),
                              IntToStr(Val(document_rank))>>, ID_SEPARATOR))
    ELSE Returned(unique_prefix \o ID_SEPARATOR \o IntToStr(message_id))

\* int(s) inside the try block: the value, or the ValueError it raises
PyInt(s) == IF IsIntLiteral(s) THEN Returned(StrToInt(s)) ELSE Raised(ErrInvalidLiteral)

\* the body of the try block of decompose_block_id
DecomposeTry(block_id) ==
    LET components == Split(block_id, ID_SEPARATOR)
    IN  IF Len(components) # 2 /\ Len(components) # 4
        THEN Raised(ErrWrongCount)
        ELSE IF Len(components) = 2
        THEN IF PyInt(components[2]).ok
             THEN Returned(<<StrToInt(components[2]), None, None>>)
             ELSE PyInt(components[2])
        ELSE IF ~PyInt(components[2]).ok THEN PyInt(components[2])
        ELSE IF ~PyInt(components[4]).ok THEN PyInt(components[4])
        ELSE Returned(<<StrToInt(components[2]), Some(components[3]),
                        Some(StrToInt(components[4]))>>)

\* decompose_block_id without its except clause
decompose_without_except(block_id) == DecomposeTry(block_id)

\* except Exception: log, raise the uniform ValueError
decompose_block_id(block_id) ==
    IF DecomposeTry(block_id).ok
    THEN DecomposeTry(block_id)
    ELSE Raised(ErrInvalidBlockId)

\* ---- inputs of the codec
MessageIds == {0 - MaxMessageId, 0, 7, MaxMessageId}
DocChars == {":", ";", "a"}

RECURSIVE SeqsUpTo(_, _)
SeqsUpTo(S, n) ==
    IF n = 0 THEN {<<>>}
    ELSE LET shorter == SeqsUpTo(S, n - 1)
         IN  shorter \cup {Append(s, c) : s \in shorter, c \in S}

DocumentIds == {None} \cup {Some(d) : d \in SeqsUpTo(DocChars, MaxDocLen)}
DocumentRanks == {None} \cup {Some(r) : r \in 0..MaxRank}

\* the pieces malformed tokens are joined from
Components ==
    {<<>>, <<"5">>, <<"-", "1">>, <<"a">>, <<":", ";">>, <<" ", "1", "_", "2">>}

BlockIds == {Join(cs, ID_SEPARATOR) :
                cs \in SeqsUpTo(Components, MaxComponents) \ {<<>>}}

CodecInit ==
    /\ cpc = "idle"
    /\ b_args = <<0, None, None>>
    /\ b_result = NoCall
    /\ d_token = <<>>
    /\ d_result = NoCall

\* a call build_feedback_block_id(message_id, document_id, document_rank)
BuildFeedbackBlockId ==
    /\ cpc = "idle"
    /\ \E m \in MessageIds, d \in DocumentIds, r \in DocumentRanks, p \in Prefixes :
        /\ cpc' = "built"
        /\ b_args' = <<m, d, r>>
        /\ b_result' = build_feedback_block_id(m, d, r, p)
        /\ d_token' = <<>>
        /\ d_result' = NoCall

\* decompose_block_id on the token the last build returned
DecomposeBuilt ==
    /\ cpc = "built"
    /\ b_result.ok
    /\ cpc' = "roundtrip"
    /\ d_token' = b_result.value
    /\ d_result' = decompose_block_id(b_result.value)
    /\ UNCHANGED <<b_args, b_result>>

\* decompose_block_id on a token received from the UI
DecomposeBlockId ==
    /\ cpc = "idle"
    /\ \E t \in BlockIds :
        /\ cpc' = "decomposed"
        /\ d_token' = t
        /\ d_result' = decompose_block_id(t)
        /\ b_args' = <<0, None, None>>
        /\ b_result' = NoCall

\* ------------------------------------------------------------------------
\* respond_in_thread and the retry decorator around it
\* ------------------------------------------------------------------------
RetryDelayQuarters == 1
RetryBackoff == 2

\* `not text and not blocks`: None, "" and [] are all falsy
Falsy(o) == IF IsNone(o) THEN TRUE ELSE Len(Val(o)) = 0

\* a check that takes only None for a missing payload
MissingPayloadNoneOnly(text, blocks) == IsNone(text) /\ IsNone(blocks)

MissingPayload(text, blocks) == Falsy(text) /\ Falsy(blocks)

\* the two client methods swapped
SlackCallMethodSwapped(receiver_ids) ==
    IF Falsy(receiver_ids) THEN "chat_postEphemeral" ELSE "chat_postMessage"

\* the client method line 82-85 wraps into slack_call
SlackCallMethod(receiver_ids) ==
    IF Falsy(receiver_ids) THEN "chat_postMessage" ELSE "chat_postEphemeral"

\* what one slack_call can do: an ok response, a response that is not ok, or
\* an exception of the client
CallOutcomes == {"ok", "not_ok", "raises"}

OutcomeError(outcome) ==
    IF outcome = "not_ok" THEN "RuntimeError" ELSE "SlackApiError"

\* a retry loop that gives up one attempt early
TriesExhaustedEarly(tries) == tries - 1 <= 1

\* the retry loop is left when the decremented _tries is zero
TriesExhausted(tries) == tries - 1 = 0

Channels == {"C1", "C2"}
ThreadTss == {None, Some("1700.01")}
Texts == {None, Some(<<>>), Some(<<"h", "i">>)}
BlockLists == {None, Some(<<>>), Some(<<"section">>)}
Receivers == {"U1", "U2"}
ReceiverLists == {None} \cup {Some(l) : l \in SeqsUpTo(Receivers, MaxReceivers)}

PostIdle ==
    /\ ppc = "idle"
    /\ p_args = [channel |-> "C1", thread_ts |-> None, text |-> None,
                 blocks |-> None, receiver_ids |-> None]
    /\ tries_left = 0
    /\ delay = 0
    /\ attempts = 0
    /\ next_receiver = 1
    /\ api_log = <<>>
    /\ attempt_errors = <<>>
    /\ sleeps = <<>>
    /\ p_error = None

\* the caller calls the decorated function: _tries, _delay = tries, delay
RespondInThread ==
    /\ ppc = "idle"
    /\ \E c \in Channels, ts \in ThreadTss, t \in Texts, b \in BlockLists,
          r \in ReceiverLists :
          p_args' = [channel |-> c, thread_ts |-> ts, text |-> t,
                     blocks |-> b, receiver_ids |-> r]
    /\ tries_left' = DANSWER_BOT_NUM_RETRIES
    /\ delay' = RetryDelayQuarters
    /\ ppc' = "attempt"
    /\ UNCHANGED <<DANSWER_BOT_NUM_RETRIES, attempts, next_receiver, api_log,
                   attempt_errors, sleeps, p_error>>

\* `except exceptions as e` of the retry loop, for an exception of type
\* errtype leaving the body in the given attempt: decrement, re-raise when exhausted, else sleep
Except(errtype, attempt) ==
    LET e == [type |-> errtype, attempt |-> attempt] IN
    /\ attempt_errors' = Append(attempt_errors, e)
    /\ tries_left' = tries_left - 1
    /\ IF TriesExhausted(tries_left)
       THEN ppc' = "raised" /\ p_error' = Some(e)
       ELSE ppc' = "sleeping" /\ p_error' = p_error

\* an attempt starts: the body runs up to its first slack_call
BeginAttempt ==
    /\ ppc = "attempt"
    /\ tries_left # 0
    /\ attempts < MaxRetries + 1
    /\ attempts' = attempts + 1
    /\ next_receiver' = 1
    /\ IF MissingPayload(p_args.text, p_args.blocks)
       THEN Except("ValueError", attempts + 1)
       ELSE /\ ppc' = "posting"
            /\ UNCHANGED <<tries_left, attempt_errors, p_error>>
    /\ UNCHANGED <<DANSWER_BOT_NUM_RETRIES, p_args, delay, api_log, sleeps>>

LogEntry(user, outcome) ==
    [attempt |-> attempts, method |-> SlackCallMethod(p_args.receiver_ids),
     channel |-> p_args.channel, user |-> user, outcome |-> outcome]

\* lines 87-98: the single chat_postMessage call
PostMessage ==
    /\ ppc = "posting"
    /\ Falsy(p_args.receiver_ids)
    /\ \E outcome \in CallOutcomes :
          /\ api_log' = Append(api_log, LogEntry(None, outcome))
          /\ IF outcome = "ok"
             THEN /\ ppc' = "returned"
                  /\ UNCHANGED <<tries_left, attempt_errors, p_error>>
             ELSE Except(OutcomeError(outcome), attempts)
    /\ UNCHANGED <<DANSWER_BOT_NUM_RETRIES, p_args, delay, attempts,
                   next_receiver, sleeps>>

\* lines 100-112: one iteration of the loop over receiver_ids
PostEphemeral ==
    /\ ppc = "posting"
    /\ ~Falsy(p_args.receiver_ids)
    /\ LET receiver_ids == Val(p_args.receiver_ids) IN
       \E outcome \in CallOutcomes :
          /\ api_log' = Append(api_log,
                               LogEntry(Some(receiver_ids[next_receiver]), outcome))
          /\ IF outcome = "ok"
             THEN /\ next_receiver' = next_receiver + 1
                  /\ ppc' = IF next_receiver = Len(receiver_ids)
                            THEN "returned" ELSE "posting"
                  /\ UNCHANGED <<tries_left, attempt_errors, p_error>>
             ELSE /\ Except(OutcomeError(outcome), attempts)
                  /\ UNCHANGED next_receiver
    /\ UNCHANGED <<DANSWER_BOT_NUM_RETRIES, p_args, delay, attempts, sleeps>>

\* time.sleep(_delay); _delay *= backoff; back to the top of the loop
Sleep ==
    /\ ppc = "sleeping"
    /\ sleeps' = Append(sleeps, delay)
    /\ delay' = delay * RetryBackoff
    /\ ppc' = "attempt"
    /\ UNCHANGED <<DANSWER_BOT_NUM_RETRIES, p_args, tries_left, attempts,
                   next_receiver, api_log, attempt_errors, p_error>>

PostNext ==
    \/ RespondInThread
    \/ BeginAttempt
    \/ PostMessage
    \/ PostEphemeral
    \/ Sleep

\* ------------------------------------------------------------------------
\* The bot identity cache
\* ------------------------------------------------------------------------
Clients == {"A", "B"}

\* the user_id the platform reports for the token of a client
BotUserId(client) == IF client = "A" THEN "UA" ELSE "UB"

\* what web_client.auth_test().get("user_id") can do: give the user_id,
\* give None (a response without the key), or raise
AuthOutcomes == {"user_id", "no_user_id", "raises"}

AuthUserId(client, outcome) ==
    IF outcome = "user_id" THEN Some(BotUserId(client)) ELSE None

\* get_danswer_bot_app_id without the `is None` test
get_app_id_uncached(cache, client, outcome) ==
    IF outcome = "raises"
    THEN [queried |-> TRUE, wrote |-> FALSE, cache |-> cache,
          result |-> Raised("SlackApiError")]
    ELSE [queried |-> TRUE, wrote |-> TRUE,
          cache |-> AuthUserId(client, outcome),
          result |-> Returned(AuthUserId(client, outcome))]

\* get_danswer_bot_app_id on a cache value: whether auth_test was queried,
\* whether the global was assigned, the cache afterwards and the outcome
get_danswer_bot_app_id(cache, client, outcome) ==
    IF IsNone(cache)
    THEN IF outcome = "raises"
         THEN [queried |-> TRUE, wrote |-> FALSE, cache |-> cache,
               result |-> Raised("SlackApiError")]
         ELSE [queried |-> TRUE, wrote |-> TRUE,
               cache |-> AuthUserId(client, outcome),
               result |-> Returned(AuthUserId(client, outcome))]
    ELSE [queried |-> FALSE, wrote |-> FALSE, cache |-> cache,
          result |-> Returned(cache)]

\* the effect of one get_danswer_bot_app_id call on the process state
GetAppIdEffect(call) ==
    /\ DANSWER_BOT_APP_ID' = call.cache
    /\ auth_test_calls' = auth_test_calls + (IF call.queried THEN 1 ELSE 0)
    /\ cache_history' = IF call.wrote THEN Append(cache_history, call.cache)
                        ELSE cache_history
    /\ id_calls' = id_calls + 1
    /\ first_result' = IF id_calls = 0 THEN call.result ELSE first_result
    /\ last_result' = call.result

\* the mention the f-string rf"<@{bot_tag_id}>" spells
Mention(bot_tag_id) ==
    IF IsNone(bot_tag_id) THEN "<@None>"
    ELSE IF Val(bot_tag_id) = "UA" THEN "<@UA>"
    ELSE IF Val(bot_tag_id) = "UB" THEN "<@UB>"
    ELSE "<@U2>"

\* re.sub(rf"<@{bot_tag_id}>\s", "", message_str): every mention that a
\* whitespace character follows is removed together with that character
RECURSIVE SubTag(_, _)
SubTag(message_str, tag) ==
    IF Len(message_str) = 0 THEN <<>>
    ELSE IF /\ message_str[1] = tag
            /\ Len(message_str) >= 2
            /\ message_str[2] \in Whitespace
         THEN SubTag(SubSeq(message_str, 3, Len(message_str)), tag)
         ELSE <<message_str[1]>> \o SubTag(Tail(message_str), tag)

remove_danswer_bot_tag(message_str, bot_tag_id) ==
    SubTag(message_str, Mention(bot_tag_id))

\* ------------------------------------------------------------------------
\* read_slack_thread
\* ------------------------------------------------------------------------
\* client.users_info: what the platform knows about the human users
UsersInfo(user_id) ==
    IF user_id = "U1"
    THEN [ok |-> TRUE, real_name |-> Some(<<"A", "n", "n">>),
          name |-> Some(<<"a", "n", "n">>), email |-> Some(<<"a", "@", "x">>)]
    ELSE IF user_id = "U4"
    THEN [ok |-> TRUE, real_name |-> Some(<<>>),
          name |-> None, email |-> Some(<<"b", "@", "x">>)]
    ELSE [ok |-> FALSE, real_name |-> None, name |-> None, email |-> None]

\* Python's `a or b`
Or(a, b) == IF Falsy(a) THEN b ELSE a

fetch_user_semantic_id_from_id(user_id) ==
    LET response == UsersInfo(user_id)
    IN  IF ~response.ok THEN None
        ELSE Or(response.real_name, Or(response.name, response.email))

FiltersMarker == <<"_", "F", "i", "l", "t", "e", "r", "s">>

ThreadMessage(message, sender, role) ==
    [message |-> message, sender |-> sender, role |-> role]

AssistantSender == Some(<<"A", "s", "s", "i", "s", "t", "a", "n", "t">>)

\* lines 253-266 for a reply of this bot: the message appended, `continue`,
\* or the KeyError of a missing "blocks" or "text" key
AssistantMessage(reply) ==
    IF IsNone(reply.blocks) THEN Raised("KeyError")
    ELSE LET blocks == Val(reply.blocks) IN
         IF Len(blocks) <= 1 THEN Returned(None)
         ELSE IF IsNone(blocks[2]) THEN Raised("KeyError")
         ELSE IF StartsWith(Val(blocks[2]), FiltersMarker)
              THEN IF Len(blocks) <= 2 THEN Returned(None)
                   ELSE IF IsNone(blocks[3]) THEN Raised("KeyError")
                   ELSE Returned(Some(ThreadMessage(Val(blocks[3]),
                                                    AssistantSender, "ASSISTANT")))
              ELSE Returned(Some(ThreadMessage(Val(blocks[2]),
                                               AssistantSender, "ASSISTANT")))

\* one iteration of the loop body, given the outcome of the
\* get_danswer_bot_app_id call it makes: the message to append, None for
\* `continue`, or the exception raised
ReplyMessage(reply, app_id) ==
    IF ~app_id.ok THEN app_id
    ELSE IF ~IsNone(reply.user) /\ IsNone(reply.bot_id)
    THEN Returned(Some(ThreadMessage(
             remove_danswer_bot_tag(reply.text, app_id.value),
             fetch_user_semantic_id_from_id(Val(reply.user)), "USER")))
    ELSE IF app_id.value # reply.user THEN Returned(None)
    ELSE AssistantMessage(reply)

\* ---- the replies the model reads
Humans == {"U1"}
ReplyTexts ==
    {<<"h", "i">>,
     <<"<@UA>", " ", "h", "i">>,
     <<"h", "i", " ", "<@UA>">>,
     <<"<@U2>", " ", "<@UA>", "\n", "h">>}

HeaderBlock == Some(<<"A", "I">>)
AnswerBlock == Some(<<"4", "2">>)
FiltersBlock == Some(FiltersMarker \o <<":", " ", "x">>)
NoTextBlock == None

BlockListsOfBot ==
    {None, Some(<<>>), Some(<<HeaderBlock>>),
     Some(<<HeaderBlock, AnswerBlock>>),
     Some(<<HeaderBlock, FiltersBlock>>),
     Some(<<HeaderBlock, FiltersBlock, AnswerBlock>>),
     Some(<<HeaderBlock, NoTextBlock>>)}

HumanReply(user, text) ==
    [user |-> Some(user), bot_id |-> None, text |-> text, blocks |-> None]

BotReply(user, blocks) ==
    [user |-> user, bot_id |-> Some("B1"), text |-> <<>>, blocks |-> blocks]

Replies ==
    {HumanReply(u, t) : u \in Humans, t \in ReplyTexts}
    \cup {HumanReply("U3", <<"h", "i">>), HumanReply("U4", <<"h", "i">>)}
    \cup {BotReply(Some("UA"), bl) : bl \in BlockListsOfBot}
    \cup {BotReply(Some("UX"), Some(<<HeaderBlock, AnswerBlock>>)),
          BotReply(None, Some(<<HeaderBlock, AnswerBlock>>))}

BriefReplies ==
    {HumanReply("U1", <<"<@UA>", " ", "h", "i">>),
     BotReply(Some("UA"), Some(<<HeaderBlock, AnswerBlock>>))}

IdentityInit ==
    /\ DANSWER_BOT_APP_ID = None
    /\ auth_test_calls = 0
    /\ cache_history = <<>>
    /\ id_calls = 0
    /\ first_result = NoCall
    /\ last_result = NoCall

ThreadIdle ==
    /\ tag_call = <<>>
    /\ rpc = "idle"
    /\ r_client = "A"
    /\ replies = <<>>
    /\ r_idx = 1
    /\ thread_messages = <<>>
    /\ r_error = None

\* a direct call get_danswer_bot_app_id(web_client)
GetDanswerBotAppId ==
    /\ rpc # "reading"
    /\ id_calls < MaxIdCalls
    /\ \E client \in Clients, outcome \in AuthOutcomes :
          GetAppIdEffect(get_danswer_bot_app_id(DANSWER_BOT_APP_ID, client, outcome))
    /\ UNCHANGED threadVars

\* a direct call remove_danswer_bot_tag(message_str, client)
RemoveDanswerBotTag ==
    /\ rpc # "reading"
    /\ id_calls < MaxIdCalls
    /\ \E client \in Clients, outcome \in AuthOutcomes, message_str \in ReplyTexts :
          LET call == get_danswer_bot_app_id(DANSWER_BOT_APP_ID, client, outcome) IN
          /\ GetAppIdEffect(call)
          /\ tag_call' = IF call.result.ok
                         THEN <<message_str,
                                remove_danswer_bot_tag(message_str, call.result.value)>>
                         ELSE <<message_str>>
    /\ UNCHANGED <<rpc, r_client, replies, r_idx, thread_messages, r_error>>

\* a call read_slack_thread(channel, thread, client), up to the loop
ReadSlackThread ==
    /\ rpc # "reading"
    /\ \E client \in Clients, rs \in SeqsUpTo(BriefReplies, MaxReplies) :
          /\ id_calls + Len(rs) <= MaxIdCalls
          /\ r_client' = client
          /\ replies' = rs
    /\ rpc' = "reading"
    /\ r_idx' = 1
    /\ thread_messages' = <<>>
    /\ r_error' = None
    /\ UNCHANGED <<identityVars, tag_call>>

\* one iteration of `for reply in replies`
ReadReply ==
    /\ rpc = "reading"
    /\ r_idx <= Len(replies)
    /\ \E outcome \in AuthOutcomes :
          LET call == get_danswer_bot_app_id(DANSWER_BOT_APP_ID, r_client, outcome)
              step == ReplyMessage(replies[r_idx], call.result)
          IN  /\ GetAppIdEffect(call)
              /\ IF step.ok
                 THEN /\ thread_messages' =
                            IF IsNone(step.value) THEN thread_messages
                            ELSE Append(thread_messages, Val(step.value))
                      /\ r_idx' = r_idx + 1
                      /\ UNCHANGED <<rpc, r_error>>
                 ELSE /\ rpc' = "raised"
                      /\ r_error' = Some(step.error)
                      /\ UNCHANGED <<r_idx, thread_messages>>
    /\ UNCHANGED <<tag_call, r_client, replies>>

\* return thread_messages
ReadReturn ==
    /\ rpc = "reading"
    /\ r_idx > Len(replies)
    /\ rpc' = "returned"
    /\ UNCHANGED <<identityVars, tag_call, r_client, replies, r_idx,
                   thread_messages, r_error>>

\* a read_slack_thread call about to enter its loop, in a process whose
\* cache is still empty or was filled by an earlier call with this client
ThreadStarted ==
    /\ DANSWER_BOT_APP_ID \in {None, Some(BotUserId("A"))}
    /\ auth_test_calls = 0
    /\ cache_history = <<>>
    /\ id_calls = 0
    /\ first_result = NoCall
    /\ last_result = NoCall
    /\ tag_call = <<>>
    /\ rpc = "reading"
    /\ r_client = "A"
    /\ replies \in SeqsUpTo(Replies, MaxReplies)
    /\ r_idx = 1
    /\ thread_messages = <<>>
    /\ r_error = None

\* ------------------------------------------------------------------------
\* translate_vespa_highlight_to_slack
\* ------------------------------------------------------------------------
\* A fragment is a sequence of characters in which the tags "<hi>" and
\* "</hi>" are single elements; the result holds characters only.
HiOpen == "<hi>"
HiClose == "</hi>"
SnippetBudget == 300
Ellipsis == <<".", ".", ".">>
FragmentJoiner == <<".", ".", ".", " ">>

\* where the lazy (.*?)</hi> ends when tried from position i: the first
\* "</hi>" with no newline before it, or 0
RECURSIVE FirstClose(_, _)
FirstClose(s, i) ==
    IF i > Len(s) THEN 0
    ELSE IF s[i] = HiClose THEN i
    ELSE IF s[i] = "\n" THEN 0
    ELSE FirstClose(s, i + 1)

\* re.sub(r"(?<=[^\s])<hi>(.*?)</hi>", r"\1", s), scanning from position i
RECURSIVE UnwrapInnerHighlights(_, _)
UnwrapInnerHighlights(s, i) ==
    IF i > Len(s) THEN <<>>
    ELSE IF /\ s[i] = HiOpen
            /\ i > 1
            /\ s[i - 1] \notin Whitespace
            /\ FirstClose(s, i + 1) # 0
         THEN SubSeq(s, i + 1, FirstClose(s, i + 1) - 1)
              \o UnwrapInnerHighlights(s, FirstClose(s, i + 1) + 1)
         ELSE <<s[i]>> \o UnwrapInnerHighlights(s, i + 1)

\* _replace_highlight
ReplaceHighlight(s) ==
    LET t == UnwrapInnerHighlights(s, 1)
    IN  [i \in 1..Len(t) |-> IF t[i] \in {HiOpen, HiClose} THEN "*" ELSE t[i]]

\* danswer.utils.text_processing.replace_whitespaces_w_space
replace_whitespaces_w_space(s) ==
    [i \in 1..Len(s) |-> IF s[i] \in Whitespace THEN " " ELSE s[i]]

\* the list comprehension of lines 158-162
RECURSIVE FinalMatches(_)
FinalMatches(strs) ==
    IF Len(strs) = 0 THEN <<>>
    ELSE IF Len(strs[1]) = 0 THEN FinalMatches(Tail(strs))
    ELSE <<Strip(replace_whitespaces_w_space(ReplaceHighlight(strs[1])))>>
         \o FinalMatches(Tail(strs))

\* Python slices s[a:] and s[:b], negative indices counted from the end
PyIndex(i, n) ==
    IF i < 0 THEN (IF n + i < 0 THEN 0 ELSE n + i)
    ELSE IF i > n THEN n ELSE i

SliceFrom(s, a) == SubSeq(s, PyIndex(a, Len(s)) + 1, Len(s))
SliceTo(s, b) == SubSeq(s, 1, PyIndex(b, Len(s)))

HasChar(c, s) == \E i \in 1..Len(s) : s[i] = c

\* a truncation that reserves no room for the ellipsis
TruncateUnreserved(text, remaining) ==
    IF Len(text) > remaining /\ ~HasChar("*", SliceFrom(text, remaining))
    THEN SliceTo(text, remaining) \o Ellipsis
    ELSE text

\* lines 168-169
Truncate(text, remaining) ==
    IF Len(text) > remaining /\ ~HasChar("*", SliceFrom(text, remaining))
    THEN SliceTo(text, remaining - 3) \o Ellipsis
    ELSE text

\* ---- inputs: the fragment lists cut out of every string over the fragment
\* characters and a cut mark
SnippetChars == {HiOpen, HiClose, "a", " "}
MatchStrLists ==
    {Split(w, <<"|">>) : w \in SeqsUpTo(SnippetChars \cup {"|"}, MaxSnippetLen)}
UsedChars == (SnippetBudget - MaxRemaining)..(SnippetBudget + MaxOverdraw)

SnippetIdle ==
    /\ spc = "idle"
    /\ match_strs = <<>>
    /\ used_chars = 0
    /\ combined = <<>>
    /\ snippet = <<>>

\* a call translate_vespa_highlight_to_slack(match_strs, used_chars) entered
SnippetCalled ==
    /\ spc = "called"
    /\ match_strs \in MatchStrLists
    /\ used_chars \in UsedChars
    /\ combined = <<>>
    /\ snippet = <<>>

TranslateVespaHighlightToSlack ==
    /\ spc = "called"
    /\ spc' = "done"
    /\ combined' = Join(FinalMatches(match_strs), FragmentJoiner)
    /\ snippet' = Truncate(combined', SnippetBudget - used_chars)
    /\ UNCHANGED <<match_strs, used_chars>>

\* ------------------------------------------------------------------------
\* Specifications
\* ------------------------------------------------------------------------
nonCodecVars == <<postVars, identityVars, threadVars, snippetVars>>
nonPostVars == <<codecVars, identityVars, threadVars, snippetVars>>
nonThreadVars == <<codecVars, postVars, snippetVars>>
nonSnippetVars == <<codecVars, postVars, identityVars, threadVars>>

PostConfigured == PostIdle /\ DANSWER_BOT_NUM_RETRIES = 1

InitCodec ==
    CodecInit /\ PostConfigured /\ IdentityInit /\ ThreadIdle /\ SnippetIdle

NextCodec ==
    \/ BuildFeedbackBlockId /\ UNCHANGED nonCodecVars
    \/ DecomposeBuilt /\ UNCHANGED nonCodecVars
    \/ DecomposeBlockId /\ UNCHANGED nonCodecVars

SpecCodec == InitCodec /\ [][NextCodec]_vars

InitPost ==
    /\ CodecInit
    /\ PostIdle
    /\ DANSWER_BOT_NUM_RETRIES \in 1..MaxRetries
    /\ IdentityInit
    /\ ThreadIdle
    /\ SnippetIdle

NextPost ==
    \/ RespondInThread /\ UNCHANGED nonPostVars
    \/ BeginAttempt /\ UNCHANGED nonPostVars
    \/ PostMessage /\ UNCHANGED nonPostVars
    \/ PostEphemeral /\ UNCHANGED nonPostVars
    \/ Sleep /\ UNCHANGED nonPostVars

SpecPost == InitPost /\ [][NextPost]_vars

InitThread == CodecInit /\ PostConfigured /\ ThreadStarted /\ SnippetIdle

NextThread ==
    \/ ReadReply /\ UNCHANGED nonThreadVars
    \/ ReadReturn /\ UNCHANGED nonThreadVars

SpecThread == InitThread /\ [][NextThread]_vars

InitIdentity ==
    CodecInit /\ PostConfigured /\ IdentityInit /\ ThreadIdle /\ SnippetIdle

NextIdentity ==
    \/ GetDanswerBotAppId /\ UNCHANGED nonThreadVars
    \/ RemoveDanswerBotTag /\ UNCHANGED nonThreadVars
    \/ ReadSlackThread /\ UNCHANGED nonThreadVars
    \/ ReadReply /\ UNCHANGED nonThreadVars
    \/ ReadReturn /\ UNCHANGED nonThreadVars

SpecIdentity == InitIdentity /\ [][NextIdentity]_vars

InitSnippet ==
    CodecInit /\ PostConfigured /\ IdentityInit /\ ThreadIdle /\ SnippetCalled

NextSnippet == TranslateVespaHighlightToSlack /\ UNCHANGED nonSnippetVars

SpecSnippet == InitSnippet /\ [][NextSnippet]_vars

\* ========================================================================
\* Properties of the feedback identifier codec
\* ========================================================================

\* C1: whenever build_feedback_block_id returned a token for (message_id,
\* document_id, document_rank), decompose_block_id of that token returns
\* exactly (message_id, document_id, document_rank).
C1_RoundTrip ==
    cpc = "roundtrip" => d_result = Returned(b_args)

\* C7: decompose_block_id succeeds exactly on the tokens that split on the
\* separator into 2 components with an integer second one, or into 4 with
\* integer second and fourth ones; every failure is the uniform
\* "Received invalid Feedback Block Identifier" error.
C7_DecomposeShape ==
    cpc \in {"decomposed", "roundtrip"} =>
        LET c == Split(d_token, ID_SEPARATOR)
            wellFormed ==
                IF Len(c) = 2 THEN IsIntLiteral(c[2])
                ELSE IF Len(c) = 4 THEN IsIntLiteral(c[2]) /\ IsIntLiteral(c[4])
                ELSE FALSE
        IN  /\ d_result.ok <=> wellFormed
            /\ ~d_result.ok => d_result = Raised(ErrInvalidBlockId)

\* a token of four components whose rank is no integer was refused
C7_Witness ==
    /\ cpc = "decomposed"
    /\ Len(Split(d_token, ID_SEPARATOR)) = 4
    /\ IsIntLiteral(Split(d_token, ID_SEPARATOR)[2])
    /\ ~IsIntLiteral(Split(d_token, ID_SEPARATOR)[4])
    /\ d_result = Raised(ErrInvalidBlockId)

\* C8: build_feedback_block_id raises a ValueError when document_id is given
\* without document_rank and when document_id contains ID_SEPARATOR; in every
\* other case with document_id None or non-empty it returns a 10-letter
\* prefix, the separator and the payload.
C8_BuildValidation ==
    cpc = "built" =>
        LET m == b_args[1]
            d == b_args[2]
            r == b_args[3]
            refused ==
                IF d = None THEN FALSE
                ELSE r = None \/ Contains(ID_SEPARATOR, Val(d))
            payload ==
                IF d = None THEN IntToStr(m)
                ELSE IntToStr(m) \o ID_SEPARATOR \o Val(d) \o ID_SEPARATOR
                     \o IntToStr(Val(r))
        IN  IF refused
            THEN /\ ~b_result.ok
                 /\ b_result.error \in {ErrMissingInfo, ErrSeparatorInId}
            ELSE IF d = None \/ d # Some(<<>>)
            THEN /\ b_result.ok
                 /\ Len(b_result.value) = PrefixLen + Len(ID_SEPARATOR) + Len(payload)
                 /\ \A i \in 1..PrefixLen : b_result.value[i] \in ascii_letters
                 /\ SubSeq(b_result.value, PrefixLen + 1,
                           PrefixLen + Len(ID_SEPARATOR)) = ID_SEPARATOR
                 /\ SubSeq(b_result.value, PrefixLen + Len(ID_SEPARATOR) + 1,
                           Len(b_result.value)) = payload
            ELSE TRUE

\* a document id containing the separator, given with a rank, was refused
C8_Witness ==
    /\ cpc = "built"
    /\ b_args[2] # None
    /\ b_args[3] # None
    /\ Contains(ID_SEPARATOR, Val(b_args[2]))
    /\ ~b_result.ok

\* ========================================================================
\* Properties of respond_in_thread under the retry decorator
\* ========================================================================
NoPayload ==
    /\ p_args.text \in {None, Some(<<>>)}
    /\ p_args.blocks \in {None, Some(<<>>)}

HasReceivers == p_args.receiver_ids \notin {None, Some(<<>>)}

ExpectedCalls == IF HasReceivers THEN Len(Val(p_args.receiver_ids)) ELSE 1

AttemptCalls(k) == SelectSeq(api_log, LAMBDA e : e.attempt = k)

AllOk(k) ==
    /\ Len(AttemptCalls(k)) = ExpectedCalls
    /\ \A i \in 1..Len(AttemptCalls(k)) : AttemptCalls(k)[i].outcome = "ok"

\* C2: a call with neither text nor blocks executes the body once; the
\* ValueError reaches the caller with no sleep and no second attempt.
C2_ValidationNotRetried ==
    (ppc # "idle" /\ NoPayload) => (attempts <= 1 /\ sleeps = <<>>)

\* C3: a call makes at most DANSWER_BOT_NUM_RETRIES attempts and is never
\* stuck before its outcome; an attempt with only ok responses is the last
\* one and the call has returned; when every attempt failed the caller gets
\* the error of the last, N-th attempt.
C3_BoundedRetry ==
    /\ attempts <= DANSWER_BOT_NUM_RETRIES
    /\ ppc \in {"attempt", "posting", "sleeping"} => ENABLED PostNext
    /\ \A k \in 1..attempts : AllOk(k) => (k = attempts /\ ppc = "returned")
    /\ ppc = "returned" => AllOk(attempts)
    /\ ppc = "raised" =>
          /\ attempts = DANSWER_BOT_NUM_RETRIES
          /\ Len(attempt_errors) = DANSWER_BOT_NUM_RETRIES
          /\ attempt_errors[DANSWER_BOT_NUM_RETRIES].attempt = DANSWER_BOT_NUM_RETRIES
          /\ p_error = Some(attempt_errors[DANSWER_BOT_NUM_RETRIES])

\* all N >= 2 attempts failed, with different errors, and the last one's
\* reached the caller
C3_Witness ==
    /\ ppc = "raised"
    /\ attempts >= 2
    /\ attempt_errors[1].type # attempt_errors[attempts].type
    /\ Val(p_error).type = attempt_errors[attempts].type

\* C4: with neither text nor blocks no slack_call is ever made, in any
\* attempt, and the call ends with the ValueError.
C4_NoCallWithoutPayload ==
    (ppc # "idle" /\ NoPayload) =>
        /\ api_log = <<>>
        /\ ppc # "returned"
        /\ \A i \in 1..Len(attempt_errors) : attempt_errors[i].type = "ValueError"
        /\ ppc = "raised" => Val(p_error).type = "ValueError"

\* an empty text with receivers: the ValueError after more than one attempt
C4_Witness ==
    /\ ppc = "raised"
    /\ p_args.text = Some(<<>>)
    /\ HasReceivers
    /\ attempts >= 2
    /\ api_log = <<>>

\* C9: with receivers, every call is chat_postEphemeral; each attempt calls
\* the receivers in list order from the first one (an attempt that got past
\* the payload check calls at least the first) and stops at the first
\* failure; after a successful return every receiver got an ok call.
C9_EphemeralDelivery ==
    (ppc # "idle" /\ HasReceivers) =>
        LET rs == Val(p_args.receiver_ids) IN
        /\ \A i \in 1..Len(api_log) : api_log[i].method = "chat_postEphemeral"
        /\ \A k \in 1..attempts :
              LET calls == AttemptCalls(k) IN
              /\ Len(calls) <= Len(rs)
              /\ (k < attempts /\ ~NoPayload) => Len(calls) >= 1
              /\ \A j \in 1..Len(calls) :
                    /\ calls[j].user = Some(rs[j])
                    /\ j < Len(calls) => calls[j].outcome = "ok"
        /\ ppc = "returned" =>
              \A i \in 1..Len(rs) :
                 \E j \in 1..Len(api_log) :
                    /\ api_log[j].user = Some(rs[i])
                    /\ api_log[j].outcome = "ok"

\* a returned call in which a receiver placed before a failing one got the
\* message in two different attempts
C9_Witness ==
    /\ ppc = "returned"
    /\ HasReceivers
    /\ \E i, j \in 1..Len(api_log) :
          /\ api_log[i].attempt < api_log[j].attempt
          /\ api_log[i].user = api_log[j].user
          /\ api_log[i].outcome = "ok"
          /\ api_log[j].outcome = "ok"

\* ========================================================================
\* Properties of read_slack_thread
\* ========================================================================
IsHumanReply(reply) == reply.user # None /\ reply.bot_id = None

\* the text with every mention of the bot taken out, along with the
\* whitespace character after it when there is one
RECURSIVE WithoutMention(_, _)
WithoutMention(text, tag) ==
    IF Len(text) = 0 THEN <<>>
    ELSE IF text[1] # tag THEN <<text[1]>> \o WithoutMention(Tail(text), tag)
    ELSE IF Len(text) >= 2 /\ text[2] \in Whitespace
         THEN WithoutMention(SubSeq(text, 3, Len(text)), tag)
         ELSE WithoutMention(Tail(text), tag)

\* the message C5 gives for one reply: <<role, text>>, or nothing
MappedReply(reply, self) ==
    IF IsHumanReply(reply)
    THEN <<<<"USER", WithoutMention(reply.text, Mention(Some(self)))>>>>
    ELSE IF reply.user # Some(self) THEN <<>>
    ELSE LET blocks == Val(reply.blocks) IN
         IF Len(blocks) < 2 THEN <<>>
         ELSE IF ~StartsWith(Val(blocks[2]), FiltersMarker)
              THEN <<<<"ASSISTANT", Val(blocks[2])>>>>
              ELSE IF Len(blocks) = 2 THEN <<>>
              ELSE <<<<"ASSISTANT", Val(blocks[3])>>>>

RECURSIVE MappedReplies(_, _)
MappedReplies(rs, self) ==
    IF Len(rs) = 0 THEN <<>>
    ELSE MappedReply(rs[1], self) \o MappedReplies(Tail(rs), self)

RolesAndTexts(messages) ==
    [i \in 1..Len(messages) |-> <<messages[i].role, messages[i].message>>]

\* the call returned and every identity lookup in it gave this bot's id
ReadWithOwnIdentity ==
    /\ rpc = "returned"
    /\ DANSWER_BOT_APP_ID \in {None, Some(BotUserId(r_client))}
    /\ id_calls > 0 => first_result = Returned(Some(BotUserId(r_client)))

\* C5: the result of read_slack_thread is, in the order of the replies, a
\* USER message with the bot's mention removed for each human reply and an
\* ASSISTANT message from "Assistant" with the second block's text (the
\* third's after a "_Filters" block) for each reply of this bot with enough
\* blocks; nothing else.
C5_ThreadMapping ==
    ReadWithOwnIdentity =>
        /\ RolesAndTexts(thread_messages) = MappedReplies(replies, BotUserId(r_client))
        /\ \A i \in 1..Len(thread_messages) :
              thread_messages[i].role = "ASSISTANT" =>
                  thread_messages[i].sender = AssistantSender

\* ========================================================================
\* Properties of the bot identity cache
\* ========================================================================

\* C10 as claimed: auth_test is issued by the first call only, the cache is
\* assigned at most once, and every later call returns what the first did.
C10_FirstCallOnly ==
    /\ auth_test_calls <= 1
    /\ Len(cache_history) <= 1
    /\ id_calls >= 2 => last_result = first_result

\* C10 as amended: auth_test is issued exactly by the calls that find the
\* cache empty; a user id is stored at most once; once the cache holds a
\* user id it never changes, no further auth_test is issued, and every later
\* call returns that id.
C10_WriteOnce ==
    /\ [](Cardinality({i \in 1..Len(cache_history) : cache_history[i] # None}) <= 1)
    /\ [](DANSWER_BOT_APP_ID # None =>
             /\ cache_history[Len(cache_history)] = DANSWER_BOT_APP_ID
             /\ last_result = Returned(DANSWER_BOT_APP_ID))
    /\ [][IF DANSWER_BOT_APP_ID # None
           THEN /\ DANSWER_BOT_APP_ID' = DANSWER_BOT_APP_ID
                /\ auth_test_calls' = auth_test_calls
                /\ cache_history' = cache_history
                /\ last_result' = Returned(DANSWER_BOT_APP_ID)
           ELSE id_calls' # id_calls =>
                    auth_test_calls' = auth_test_calls + 1]_vars

\* the first call's query failed, a later call stored the id, and a call
\* with the other client after that was answered from the cache
C10_Witness ==
    /\ ~first_result.ok
    /\ id_calls = 3
    /\ auth_test_calls = 2
    /\ DANSWER_BOT_APP_ID = Some("UA")
    /\ last_result = Returned(Some("UA"))
    /\ rpc = "reading"
    /\ r_client = "B"
    /\ r_idx = 2

\* ========================================================================
\* Properties of translate_vespa_highlight_to_slack
\* ========================================================================
Remaining == SnippetBudget - used_chars

\* an emphasis marker at or after the (0-based) index `remaining`
MarkerPastCutoff ==
    \E i \in 1..Len(combined) : i - 1 >= Remaining /\ combined[i] = "*"

EndsWithEllipsis(s) ==
    Len(s) >= 3 /\ SubSeq(s, Len(s) - 2, Len(s)) = Ellipsis

====
